---------------------------- MODULE Spec2Model ----------------------------
(***************************************************************************)
(* A model of minimal-json-patch (RFC 6902 JSON Patch application):        *)
(* the Pointer class (src/src/pointer.js), the tree primitives has / get / *)
(* add / replace / remove and the dispatcher applyOperation / applyPatch   *)
(* (src/unnamed/part_001), and compare (src/src/util.js).                  *)
(*                                                                         *)
(* JavaScript values are tagged records:                                   *)
(*   [k |-> "undefined"]  [k |-> "null"]  [k |-> "bool", b |-> BOOLEAN]    *)
(*   [k |-> "num", n |-> Int]   [k |-> "str", s |-> sequence of characters]*)
(*   [k |-> "arr", a |-> sequence of values]                               *)
(*   [k |-> "obj", o |-> function from keys (character sequences) to       *)
(*                       values]                                           *)
(* A string is a sequence of one-character strings, so that splitting,     *)
(* unescaping and number parsing are computed character by character.      *)
(* A call that may throw returns [ok |-> TRUE, val |-> ...] or             *)
(* [ok |-> FALSE, err |-> <the JsonPatchError message>].                   *)
(***************************************************************************)
EXTENDS Integers, Sequences, FiniteSets, TLC

----------------------------------------------------------------------------
(* Values *)

Undefined == [k |-> "undefined"]
Null == [k |-> "null"]
Num(n) == [k |-> "num", n |-> n]
Str(s) == [k |-> "str", s |-> s]
Arr(a) == [k |-> "arr", a |-> a]
Obj(o) == [k |-> "obj", o |-> o]

isArray(x) == x.k = "arr"

isObject(x) == x.k = "obj"

Throw(msg) == [ok |-> FALSE, err |-> msg]

(* element[index] of JavaScript, for an array or an object element and an  *)
(* index produced by parseTokenString (a number for an array, a key for an *)
(* object).  Only own members are modelled.                                *)
Member(element, index) ==
  IF isArray(element)
    THEN IF index >= 0 /\ index < Len(element.a) THEN element.a[index + 1] ELSE Undefined
    ELSE IF index \in DOMAIN element.o THEN element.o[index] ELSE Undefined

(* Array.prototype.splice(start, deleteCount, ...items) on a copy of arr:  *)
(* a negative start counts from the end, and start and deleteCount are     *)
(* clamped to the array.                                                   *)
Splice(arr, start, deleteCount, items) ==
  LET len == Len(arr)
      s == IF start < 0 THEN (IF len + start < 0 THEN 0 ELSE len + start)
           ELSE (IF start > len THEN len ELSE start)
      d == IF deleteCount < 0 THEN 0
           ELSE (IF deleteCount > len - s THEN len - s ELSE deleteCount)
  IN SubSeq(arr, 1, s) \o items \o SubSeq(arr, s + d + 1, len)

(* { ...element, [key]: member } *)
SetKey(o, key, member) ==
  [x \in (DOMAIN o) \cup {key} |-> IF x = key THEN member ELSE o[x]]

(* { ...element } followed by delete newElement[key] *)
DeleteKey(o, key) == [x \in (DOMAIN o) \ {key} |-> o[x]]

----------------------------------------------------------------------------
(* Strings *)

Digits == <<"0", "1", "2", "3", "4", "5", "6", "7", "8", "9">>

IsDigit(c) == \E d \in 1..10 : Digits[d] = c

DigitVal(c) == (CHOOSE d \in 1..10 : Digits[d] = c) - 1

IsWhite(c) == c = " "

(* The least i >= from with s[i..] starting with pat, or 0: the position   *)
(* String.prototype.indexOf gives, counted from 1.                         *)
IndexOf(s, pat, from) ==
  LET hits == {i \in from..(Len(s) - Len(pat) + 1) : SubSeq(s, i, i + Len(pat) - 1) = pat}
  IN IF hits = {} THEN 0 ELSE CHOOSE i \in hits : \A j \in hits : i <= j

(* String.prototype.replace(pat, rep) with a string pattern: only the      *)
(* first occurrence of pat is replaced.                                    *)
StringReplace(s, pat, rep) ==
  LET i == IndexOf(s, pat, 1)
  IN IF i = 0 THEN s
     ELSE SubSeq(s, 1, i - 1) \o rep \o SubSeq(s, i + Len(pat), Len(s))

(* String.prototype.split('/'): the pieces between the separators          *)
RECURSIVE StringSplit(_, _)
StringSplit(s, sep) ==
  LET i == IndexOf(s, <<sep>>, 1)
  IN IF i = 0 THEN <<s>>
     ELSE <<SubSeq(s, 1, i - 1)>> \o StringSplit(SubSeq(s, i + 1, Len(s)), sep)

(* The characters of s from its first non-white one *)
RECURSIVE TrimLeft(_)
TrimLeft(s) == IF s # <<>> /\ IsWhite(Head(s)) THEN TrimLeft(Tail(s)) ELSE s

RECURSIVE TrimRight(_)
TrimRight(s) ==
  IF s # <<>> /\ IsWhite(s[Len(s)]) THEN TrimRight(SubSeq(s, 1, Len(s) - 1)) ELSE s

(* The length of the longest prefix of s made of digits *)
RECURSIVE DigitPrefixLen(_)
DigitPrefixLen(s) ==
  IF s # <<>> /\ IsDigit(Head(s)) THEN 1 + DigitPrefixLen(Tail(s)) ELSE 0

(* The number a sequence of digits denotes (0 for the empty one) *)
RECURSIVE DigitsValue(_)
DigitsValue(s) ==
  IF s = <<>> THEN 0
  ELSE 10 * DigitsValue(SubSeq(s, 1, Len(s) - 1)) + DigitVal(s[Len(s)])

RECURSIVE Pow10(_)
Pow10(n) == IF n <= 0 THEN 1 ELSE 10 * Pow10(n - 1)

NaN == [nan |-> TRUE]

(* parseInt(str, 10): leading white space is skipped, a sign is read, then *)
(* the longest run of digits; what follows is ignored; no digit gives NaN. *)
parseIntValue(digits, negative) ==
  IF digits = <<>> THEN NaN
  ELSE [nan |-> FALSE,
        int |-> IF negative THEN 0 - DigitsValue(digits) ELSE DigitsValue(digits)]

parseIntDigits(body, negative) ==
  parseIntValue(SubSeq(body, 1, DigitPrefixLen(body)), negative)

parseIntSign(t) ==
  IF t # <<>> /\ Head(t) \in {"+", "-"}
    THEN parseIntDigits(Tail(t), Head(t) = "-")
    ELSE parseIntDigits(t, FALSE)

parseInt(str) == parseIntSign(TrimLeft(str))

(* ToNumber(str) of a decimal literal, as the pair num * 10^exp:           *)
(* white space is trimmed on both sides, the empty string is 0, and the    *)
(* whole rest must be [+-] digits [. digits] [e [+-] digits] with a digit  *)
(* before the exponent; anything else is NaN.  (Hexadecimal, octal, binary *)
(* and Infinity literals are outside the alphabet of the model.)           *)
numResult(ipart, fpart, e, negative) ==
  [nan |-> FALSE,
   num |-> IF negative THEN 0 - DigitsValue(ipart \o fpart) ELSE DigitsValue(ipart \o fpart),
   exp |-> e - Len(fpart)]

numExpDigits(ipart, fpart, rest, expNegative, negative) ==
  IF rest = <<>> \/ DigitPrefixLen(rest) # Len(rest) THEN NaN
  ELSE numResult(ipart, fpart,
                 IF expNegative THEN 0 - DigitsValue(rest) ELSE DigitsValue(rest),
                 negative)

numExpSign(ipart, fpart, rest, negative) ==
  IF rest # <<>> /\ Head(rest) \in {"+", "-"}
    THEN numExpDigits(ipart, fpart, Tail(rest), Head(rest) = "-", negative)
    ELSE numExpDigits(ipart, fpart, rest, FALSE, negative)

numExp(ipart, fpart, rest, negative) ==
  IF ipart \o fpart = <<>> THEN NaN
  ELSE IF rest = <<>> THEN numResult(ipart, fpart, 0, negative)
  ELSE IF Head(rest) \in {"e", "E"} THEN numExpSign(ipart, fpart, Tail(rest), negative)
  ELSE NaN

numFraction(ipart, rest, negative) ==
  IF rest # <<>> /\ Head(rest) = "."
    THEN numExp(ipart,
                SubSeq(Tail(rest), 1, DigitPrefixLen(Tail(rest))),
                SubSeq(Tail(rest), DigitPrefixLen(Tail(rest)) + 1, Len(rest) - 1),
                negative)
    ELSE numExp(ipart, <<>>, rest, negative)

numInteger(body, negative) ==
  numFraction(SubSeq(body, 1, DigitPrefixLen(body)),
              SubSeq(body, DigitPrefixLen(body) + 1, Len(body)),
              negative)

numSign(t) ==
  IF t = <<>> THEN [nan |-> FALSE, num |-> 0, exp |-> 0]
  ELSE IF Head(t) \in {"+", "-"} THEN numInteger(Tail(t), Head(t) = "-")
  ELSE numInteger(t, FALSE)

ToNumber(str) == numSign(TrimRight(TrimLeft(str)))

(* tokenNumber != m for an integer tokenNumber and a converted string m *)
NumberNotEqual(tokenNumber, m) ==
  IF m.nan THEN TRUE
  ELSE IF m.exp >= 0 THEN tokenNumber # m.num * Pow10(m.exp)
  ELSE tokenNumber * Pow10(0 - m.exp) # m.num

(* tokenNumber != tokenString for an integer tokenNumber: the loose        *)
(* comparison converts the string with ToNumber and compares the numbers.  *)
LooseNotEqual(tokenNumber, tokenString) ==
  NumberNotEqual(tokenNumber, ToNumber(tokenString))

----------------------------------------------------------------------------
(* Pointer (src/src/pointer.js).  A pointer is the record                  *)
(* [tokenStrings |-> sequence of strings, nextTokenIndex |-> Nat]; a       *)
(* method that moves the cursor returns the pointer it leaves in ptr.      *)

validatePath(path) ==
  IF path.k # "str" THEN Throw("bad path: should be a string")
  ELSE IF path.s # <<>> /\ Head(path.s) # "/"
    THEN Throw("bad path: should be \"\" or start with \"/\"")
  ELSE [ok |-> TRUE]

(* parseTokenString, lines 28-36 *)
parseIndex(tokenString, tokenNumber) ==
  IF tokenNumber.nan THEN Throw("path token is not a valid array index")
  ELSE IF LooseNotEqual(tokenNumber.int, tokenString)
    THEN Throw("path token is not a valid array index")
  ELSE [ok |-> TRUE, val |-> tokenNumber.int]

parseTokenString(tokenString, context) ==
  IF isObject(context)
    THEN [ok |-> TRUE,
          val |-> StringReplace(StringReplace(tokenString, <<"~", "1">>, <<"/">>),
                                <<"~", "0">>, <<"~">>)]
  ELSE IF isArray(context)
    THEN IF tokenString = <<"-">> THEN [ok |-> TRUE, val |-> Len(context.a)]
         ELSE parseIndex(tokenString, parseInt(tokenString))
  ELSE Throw("token context should either be an array or a string")

(* new Pointer(path) *)
Pointer(path) ==
  IF ~validatePath(path).ok THEN validatePath(path)
  ELSE [ok |-> TRUE,
        val |-> [tokenStrings |-> Tail(StringSplit(path.s, "/")),
                 nextTokenIndex |-> 0]]

isPrefixTo(this, anotherPointer) ==
  \A index \in 1..Len(this.tokenStrings) :
    /\ index <= Len(anotherPointer.tokenStrings)
    /\ this.tokenStrings[index] = anotherPointer.tokenStrings[index]

tokensLeft(this) == Len(this.tokenStrings) - this.nextTokenIndex

isFullyRead(this) == tokensLeft(this) <= 0

(* readNextTokenInContext, lines 88-90 *)
advance(this, r) ==
  IF ~r.ok THEN r
  ELSE [ok |-> TRUE, val |-> r.val, ptr |-> [this EXCEPT !.nextTokenIndex = @ + 1]]

readNextTokenInContext(this, contextItem) ==
  IF this.nextTokenIndex >= Len(this.tokenStrings)
    THEN Throw("pointer is already fully read")
  ELSE advance(this, parseTokenString(this.tokenStrings[this.nextTokenIndex + 1], contextItem))

rewind(this) == [this EXCEPT !.nextTokenIndex = 0]

----------------------------------------------------------------------------
(* The tree primitives (src/unnamed/part_001).  A successful call returns  *)
(* [ok, val, ptr]: its value and the pointer as the walk leaves it.  The   *)
(* editing primitives also return src: the element they were given, as the *)
(* call leaves it (they edit copies, so src is the element).  Where the    *)
(* code names the result of a call that may throw, the rest of the         *)
(* function is an operator of that result.                                 *)

RECURSIVE has(_, _)
(* has, lines 15-19 *)
hasToken(element, r) ==
  IF ~r.ok THEN r
  ELSE IF Member(element, r.val) = Undefined
    THEN [ok |-> TRUE, val |-> FALSE, ptr |-> r.ptr]
  ELSE has(Member(element, r.val), r.ptr)

has(element, pointer) ==
  IF isFullyRead(pointer) THEN [ok |-> TRUE, val |-> TRUE, ptr |-> pointer]
  ELSE hasToken(element, readNextTokenInContext(pointer, element))

RECURSIVE get(_, _)
(* get, lines 29-33 *)
getToken(element, r) ==
  IF ~r.ok THEN r
  ELSE IF Member(element, r.val) = Undefined
    THEN Throw("pointer does not lead anywhere")
  ELSE get(Member(element, r.val), r.ptr)

get(element, pointer) ==
  IF isFullyRead(pointer) THEN [ok |-> TRUE, val |-> element, ptr |-> pointer]
  ELSE getToken(element, readNextTokenInContext(pointer, element))

(* The element with its member at index set to member (what the element    *)
(* holds after a call on element[index] that left member there).           *)
WithMember(element, index, member) ==
  IF Member(element, index) = member THEN element
  ELSE IF isArray(element) THEN Arr([element.a EXCEPT ![index + 1] = member])
  ELSE Obj(SetKey(element.o, index, member))

(* The result b of a rebuild, with the pointer the walk left *)
WithPointer(b, pointer) == IF ~b.ok THEN b ELSE b @@ [ptr |-> pointer]

(* A variant of addRebuild that splices into element itself instead of a   *)
(* copy of it: the element given is left holding the new member.           *)
addRebuildInPlace(element, index, modifiedMember) ==
  IF isArray(element)
    THEN IF index > Len(element.a)
           THEN Throw("pointer points to an index that is out-of-bounds")
           ELSE [ok |-> TRUE,
                 src |-> Arr(Splice(element.a, index, 0, <<modifiedMember>>)),
                 val |-> Arr(Splice(element.a, index, 0, <<modifiedMember>>))]
    ELSE [ok |-> TRUE,
          src |-> Obj(SetKey(element.o, index, modifiedMember)),
          val |-> Obj(SetKey(element.o, index, modifiedMember))]

(* A variant of addRebuild whose splice deletes the element at index:      *)
(* the member overwrites what was there instead of being inserted.         *)
addRebuildOverwrite(element, index, modifiedMember) ==
  IF isArray(element)
    THEN IF index > Len(element.a)
           THEN Throw("pointer points to an index that is out-of-bounds")
           ELSE [ok |-> TRUE, src |-> element,
                 val |-> Arr(Splice(element.a, index, 1, <<modifiedMember>>))]
    ELSE [ok |-> TRUE, src |-> element,
          val |-> Obj(SetKey(element.o, index, modifiedMember))]

(* add, lines 54-66: the new element built from a copy of element *)
addRebuild(element, index, modifiedMember) ==
  IF isArray(element)
    THEN IF index > Len(element.a)
           THEN Throw("pointer points to an index that is out-of-bounds")
           ELSE [ok |-> TRUE, src |-> element,
                 val |-> Arr(Splice(element.a, index, 0, <<modifiedMember>>))]
    ELSE [ok |-> TRUE, src |-> element,
          val |-> Obj(SetKey(element.o, index, modifiedMember))]

(* replace, lines 87-95, and remove, lines 127-135 *)
replaceRebuild(element, index, modifiedMember) ==
  IF isArray(element)
    THEN [ok |-> TRUE, src |-> element,
          val |-> Arr(Splice(element.a, index, 1, <<modifiedMember>>))]
    ELSE [ok |-> TRUE, src |-> element,
          val |-> Obj(SetKey(element.o, index, modifiedMember))]

(* A variant of removeMember without the existence check of lines 102-104 *)
removeMemberUnchecked(element, index) ==
  IF isArray(element)
    THEN [ok |-> TRUE, src |-> element,
          val |-> Arr(Splice(element.a, index, 1, <<>>))]
    ELSE [ok |-> TRUE, src |-> element,
          val |-> Obj(DeleteKey(element.o, index))]

(* remove, lines 102-114 *)
removeMember(element, index) ==
  IF Member(element, index) = Undefined THEN Throw("pointer does not lead anywhere")
  ELSE IF isArray(element)
    THEN [ok |-> TRUE, src |-> element,
          val |-> Arr(Splice(element.a, index, 1, <<>>))]
    ELSE [ok |-> TRUE, src |-> element,
          val |-> Obj(DeleteKey(element.o, index))]

NotContainer == Throw("pointer leads to an element that is neither an array nor an object")

RECURSIVE add(_, _, _)
(* add, lines 51-66, given the result m of the recursive call *)
addDeeper(element, index, m) ==
  IF ~m.ok THEN m
  ELSE WithPointer(addRebuild(WithMember(element, index, m.src), index, m.val), m.ptr)

(* A variant of addToken that, where an object lacks the member a token    *)
(* names, goes on into a new empty object instead of throwing              *)
addCreated(element, index, m) ==
  IF ~m.ok THEN m
  ELSE WithPointer(addRebuild(element, index, m.val), m.ptr)

addTokenCreating(element, value, r) ==
  IF ~r.ok THEN r
  ELSE IF isFullyRead(r.ptr) THEN WithPointer(addRebuild(element, r.val, value), r.ptr)
  ELSE IF isObject(element) /\ Member(element, r.val) = Undefined
    THEN addCreated(element, r.val, add(Obj(<<>>), r.ptr, value))
  ELSE IF ~isArray(Member(element, r.val)) /\ ~isObject(Member(element, r.val))
    THEN NotContainer
  ELSE addDeeper(element, r.val, add(Member(element, r.val), r.ptr, value))

(* add, lines 39-66, given the result r of reading the token *)
addToken(element, value, r) ==
  IF ~r.ok THEN r
  ELSE IF isFullyRead(r.ptr) THEN WithPointer(addRebuild(element, r.val, value), r.ptr)
  ELSE IF ~isArray(Member(element, r.val)) /\ ~isObject(Member(element, r.val))
    THEN NotContainer
  ELSE addDeeper(element, r.val, add(Member(element, r.val), r.ptr, value))

add(element, pointer, value) ==
  addToken(element, value, readNextTokenInContext(pointer, element))

RECURSIVE replace(_, _, _)
(* replace, lines 84-95, given the result m of the recursive call *)
replaceDeeper(element, index, m) ==
  IF ~m.ok THEN m
  ELSE WithPointer(replaceRebuild(WithMember(element, index, m.src), index, m.val), m.ptr)

(* replace, lines 72-95, given the result r of reading the token *)
replaceToken(element, value, r) ==
  IF ~r.ok THEN r
  ELSE IF isFullyRead(r.ptr) THEN WithPointer(replaceRebuild(element, r.val, value), r.ptr)
  ELSE IF ~isArray(Member(element, r.val)) /\ ~isObject(Member(element, r.val))
    THEN NotContainer
  ELSE replaceDeeper(element, r.val, replace(Member(element, r.val), r.ptr, value))

replace(element, pointer, value) ==
  replaceToken(element, value, readNextTokenInContext(pointer, element))

RECURSIVE remove(_, _)
(* remove, lines 101-135, given the result r of reading the token *)
removeToken(element, r) ==
  IF ~r.ok THEN r
  ELSE IF isFullyRead(r.ptr) THEN WithPointer(removeMember(element, r.val), r.ptr)
  ELSE IF ~isArray(Member(element, r.val)) /\ ~isObject(Member(element, r.val))
    THEN NotContainer
  ELSE replaceDeeper(element, r.val, remove(Member(element, r.val), r.ptr))

remove(element, pointer) ==
  removeToken(element, readNextTokenInContext(pointer, element))

----------------------------------------------------------------------------
(* compare (src/src/util.js): [ok |-> TRUE] when it returns, the error     *)
(* when it throws                                                          *)

RECURSIVE compare(_, _)
compareObject(object, value) ==
  IF ~isObject(value) THEN Throw("test target is an object but the value is not")
  ELSE IF Cardinality(DOMAIN object.o) # Cardinality(DOMAIN value.o)
    THEN Throw("test target has a different number of keys than the compared value")
  ELSE IF \E valueKey \in DOMAIN value.o : valueKey \notin DOMAIN object.o
    THEN Throw("test target lacks a key")
  ELSE IF \E key \in DOMAIN object.o : key \notin DOMAIN value.o
    THEN Throw("test target has an extra key")
  ELSE LET bad == {valueKey \in DOMAIN value.o :
                     ~compare(object.o[valueKey], value.o[valueKey]).ok}
       IN IF bad = {} THEN [ok |-> TRUE]
          ELSE compare(object.o[CHOOSE k \in bad : TRUE], value.o[CHOOSE k \in bad : TRUE])

(* A variant of compareArray without the length check of lines 42-46 *)
compareArrayAnyLength(array, value) ==
  IF ~isArray(value) THEN Throw("test target is an array but the value is not")
  ELSE LET bad == {i \in 1..Len(array.a) : ~compare(array.a[i], Member(value, i - 1)).ok}
       IN IF bad = {} THEN [ok |-> TRUE]
          ELSE LET i == CHOOSE i \in bad : \A j \in bad : i <= j
               IN compare(array.a[i], Member(value, i - 1))

compareArray(array, value) ==
  IF ~isArray(value) THEN Throw("test target is an array but the value is not")
  ELSE IF Len(array.a) # Len(value.a)
    THEN Throw("test target and value are arrays of differing length")
  ELSE LET bad == {i \in 1..Len(array.a) : ~compare(array.a[i], value.a[i]).ok}
       IN IF bad = {} THEN [ok |-> TRUE]
          ELSE LET i == CHOOSE i \in bad : \A j \in bad : i <= j
               IN compare(array.a[i], value.a[i])

comparePrimitive(primitive, value) ==
  IF primitive # value THEN Throw("is not equal to") ELSE [ok |-> TRUE]

compare(item, value) ==
  IF isObject(item) THEN compareObject(item, value)
  ELSE IF isArray(item) THEN compareArray(item, value)
  ELSE comparePrimitive(item, value)

----------------------------------------------------------------------------
(* applyOperation (src/unnamed/part_001).  An operation is a function from *)
(* its member names to values, so 'value' in operation is a test of its    *)
(* domain.                                                                 *)

Field(operation, name) ==
  IF name \in DOMAIN operation THEN operation[name] ELSE Undefined

(* a === b: arrays and objects written apart are different objects *)
StrictEquals(a, b) == a = b /\ a.k \notin {"arr", "obj"}

EmptyString == Str(<<>>)

(* e.describe('<op> failed'); throw e *)
Describe(r, what) == IF r.ok THEN r ELSE [ok |-> FALSE, err |-> r.err, described |-> what]

(* A returned document: val, the document given as the call leaves it      *)
(* (src), and whether val is that very object (same).                      *)
Return(val, src, same) == [ok |-> TRUE, val |-> val, src |-> src, same |-> same]

(* return <an editing primitive's result r> *)
Returned(r) == IF ~r.ok THEN r ELSE Return(r.val, r.src, FALSE)

(* case 'add', line 152 *)
caseAddAt(document, operation, p) ==
  IF ~p.ok THEN p ELSE Returned(add(document, p.val, operation.value))

(* A variant of caseAdd that requires a from member, when there is one, to *)
(* be a pointer                                                            *)
caseAddCheckingFrom(document, operation) ==
  IF "value" \notin DOMAIN operation THEN Throw("missing value")
  ELSE IF "from" \in DOMAIN operation /\ ~validatePath(operation.from).ok
    THEN validatePath(operation.from)
  ELSE IF StrictEquals(Field(operation, "path"), EmptyString)
    THEN Return(operation.value, document, FALSE)
  ELSE caseAddAt(document, operation, Pointer(Field(operation, "path")))

caseAdd(document, operation) ==
  IF "value" \notin DOMAIN operation THEN Throw("missing value")
  ELSE IF StrictEquals(Field(operation, "path"), EmptyString)
    THEN Return(operation.value, document, FALSE)
  ELSE caseAddAt(document, operation, Pointer(Field(operation, "path")))

(* A variant of caseCopyAt that writes the value with replace, as the move *)
(* case does, instead of add                                               *)
caseCopyAtReplace(document, value, p) ==
  IF ~p.ok THEN p ELSE Returned(replace(document, p.val, value))

(* case 'copy', line 174 *)
caseCopyAt(document, value, p) ==
  IF ~p.ok THEN p ELSE Returned(add(document, p.val, value))

(* case 'copy', lines 168-174, given the result g of get *)
caseCopyValue(document, operation, fromPointer, g) ==
  IF ~g.ok THEN g
  ELSE IF StrictEquals(Field(operation, "path"), EmptyString)
    THEN Return(g.val, document, fromPointer.tokenStrings = <<>>)
  ELSE caseCopyAt(document, g.val, Pointer(Field(operation, "path")))

(* case 'copy', line 166 *)
caseCopyFrom(document, operation, f) ==
  IF ~f.ok THEN f ELSE caseCopyValue(document, operation, f.val, get(document, f.val))

caseCopy(document, operation) ==
  IF "from" \notin DOMAIN operation THEN Throw("missing from")
  ELSE caseCopyFrom(document, operation, Pointer(operation.from))

(* case 'move', line 219, given the result d of remove *)
caseMoveRemoved(src, d) == IF ~d.ok THEN d ELSE Return(d.val, src, FALSE)

(* case 'move', lines 210-219, given the result r of replace *)
caseMoveReplaced(fromPointer, r) ==
  IF ~r.ok THEN r
  ELSE IF isPrefixTo(r.ptr, fromPointer) THEN Return(r.val, r.src, FALSE)
  ELSE caseMoveRemoved(r.src, remove(r.val, rewind(fromPointer)))

(* case 'move', lines 202-210, given the result g of get *)
caseMoveValue(document, operation, pathPointer, g) ==
  IF ~g.ok THEN g
  ELSE IF StrictEquals(operation.path, EmptyString) THEN Return(g.val, document, FALSE)
  ELSE caseMoveReplaced(g.ptr, replace(document, pathPointer, g.val))

(* A variant of caseMovePointers without the prefix check of lines 196-200 *)
caseMovePointersUnchecked(document, operation, f, p) ==
  IF ~f.ok THEN f
  ELSE IF ~p.ok THEN p
  ELSE caseMoveValue(document, operation, p.val, get(document, f.val))

(* case 'move', lines 193-202 *)
caseMovePointers(document, operation, f, p) ==
  IF ~f.ok THEN f
  ELSE IF ~p.ok THEN p
  ELSE IF isPrefixTo(f.val, p.val)
    THEN Throw("from pointer cannot be a prefix of path pointer")
  ELSE caseMoveValue(document, operation, p.val, get(document, f.val))

(* A variant of caseMove without the check of lines 184-186 that from is a *)
(* member of the operation                                                 *)
caseMoveAnyShape(document, operation) ==
  IF StrictEquals(Field(operation, "from"), Field(operation, "path"))
    THEN Return(document, document, TRUE)
  ELSE caseMovePointers(document, operation,
                        Pointer(Field(operation, "from")), Pointer(Field(operation, "path")))

caseMove(document, operation) ==
  IF "from" \notin DOMAIN operation THEN Throw("missing from")
  ELSE IF StrictEquals(operation.from, Field(operation, "path"))
    THEN Return(document, document, TRUE)
  ELSE caseMovePointers(document, operation,
                        Pointer(operation.from), Pointer(Field(operation, "path")))

(* case 'remove', line 235 *)
caseRemoveAt(document, p) ==
  IF ~p.ok THEN p ELSE Returned(remove(document, p.val))

caseRemove(document, operation) ==
  IF StrictEquals(Field(operation, "path"), EmptyString)
    THEN Return(Null, document, FALSE)
  ELSE caseRemoveAt(document, Pointer(Field(operation, "path")))

(* A variant of caseReplaceHas without the existence check of lines 257-261 *)
caseReplaceHasUnchecked(document, operation, h) ==
  IF ~h.ok THEN h
  ELSE Returned(replace(document, rewind(h.ptr), operation.value))

(* A variant of caseReplaceHas without the rewind of line 261: replace is  *)
(* given the pointer as has left it                                        *)
caseReplaceHasUnrewound(document, operation, h) ==
  IF ~h.ok THEN h
  ELSE IF ~h.val THEN Throw("pointer points to a nonexistent location")
  ELSE Returned(replace(document, h.ptr, operation.value))

(* case 'replace', lines 257-263, given the result h of has *)
caseReplaceHas(document, operation, h) ==
  IF ~h.ok THEN h
  ELSE IF ~h.val THEN Throw("pointer points to a nonexistent location")
  ELSE Returned(replace(document, rewind(h.ptr), operation.value))

(* case 'replace', lines 255-257 *)
caseReplaceAt(document, operation, p) ==
  IF ~p.ok THEN p ELSE caseReplaceHas(document, operation, has(document, p.val))

(* A variant of caseReplace without the return of lines 249-253 for the    *)
(* root path                                                               *)
caseReplaceFromRoot(document, operation) ==
  IF "value" \notin DOMAIN operation THEN Throw("missing value")
  ELSE caseReplaceAt(document, operation, Pointer(Field(operation, "path")))

caseReplace(document, operation) ==
  IF "value" \notin DOMAIN operation THEN Throw("missing value")
  ELSE IF StrictEquals(Field(operation, "path"), EmptyString)
    THEN Return(operation.value, document, FALSE)
  ELSE caseReplaceAt(document, operation, Pointer(Field(operation, "path")))

(* case 'test', lines 277-279, given the result c of compare *)
caseTestCompared(document, c) ==
  IF ~c.ok THEN c ELSE Return(document, document, TRUE)

(* case 'test', line 277, given the result g of get *)
caseTestValue(document, operation, g) ==
  IF ~g.ok THEN g ELSE caseTestCompared(document, compare(operation.value, g.val))

(* case 'test', line 277 *)
caseTestAt(document, operation, p) ==
  IF ~p.ok THEN p ELSE caseTestValue(document, operation, get(document, p.val))

caseTest(document, operation) ==
  IF "value" \notin DOMAIN operation THEN Throw("missing value")
  ELSE caseTestAt(document, operation, Pointer(Field(operation, "path")))

OpName(name) ==
  Str(CASE name = "add" -> <<"a", "d", "d">>
        [] name = "copy" -> <<"c", "o", "p", "y">>
        [] name = "move" -> <<"m", "o", "v", "e">>
        [] name = "remove" -> <<"r", "e", "m", "o", "v", "e">>
        [] name = "replace" -> <<"r", "e", "p", "l", "a", "c", "e">>
        [] name = "test" -> <<"t", "e", "s", "t">>)

applyOperation(document, operation) ==
  LET op == Field(operation, "op")
  IN CASE op = OpName("add") -> Describe(caseAdd(document, operation), "add failed")
       [] op = OpName("copy") -> Describe(caseCopy(document, operation), "copy failed")
       [] op = OpName("move") -> Describe(caseMove(document, operation), "move failed")
       [] op = OpName("remove") -> Describe(caseRemove(document, operation), "remove failed")
       [] op = OpName("replace") -> Describe(caseReplace(document, operation), "replace failed")
       [] op = OpName("test") -> Describe(caseTest(document, operation), "test failed")
       [] OTHER -> Throw("illegal op: should be add/copy/move/remove/replace/test")

----------------------------------------------------------------------------
(* applyPatch (src/unnamed/part_001, lines 294-304) as a state machine     *)

VARIABLES
  original,   \* the caller's document object, as it is now
  given,      \* the document the caller passed, as it was at the call
  patch,      \* the patch argument
  document,   \* the local variable document
  aliased,    \* document is the caller's object itself
  done,       \* how many operations of patch the loop has applied
  status,     \* "running", "returned" or "thrown"
  result      \* the returned document, or the error thrown

vars == <<original, given, patch, document, aliased, done, status, result>>

InitWith(D, P) ==
  /\ original = D
  /\ given = D
  /\ patch = P
  /\ document = D
  /\ aliased = TRUE
  /\ done = 0
  /\ status = "running"
  /\ result = Undefined

(* line 295: the patch is not an array *)
BadPatch ==
  /\ status = "running"
  /\ ~isArray(patch)
  /\ status' = "thrown"
  /\ result' = Throw("bad patch: should be an array of operations")
  /\ UNCHANGED <<original, given, patch, document, aliased, done>>

(* A variant of ApplyNext that applies every operation to the document    *)
(* given instead of the one the previous operation produced.               *)
ApplyNextToGiven ==
  /\ status = "running"
  /\ isArray(patch)
  /\ done < Len(patch.a)
  /\ LET r == applyOperation(given, patch.a[done + 1])
     IN /\ r.ok
        /\ document' = r.val
        /\ original' = (IF aliased THEN r.src ELSE original)
        /\ aliased' = (aliased /\ r.same)
  /\ done' = done + 1
  /\ UNCHANGED <<given, patch, status, result>>

(* lines 299-301: one turn of the loop whose applyOperation returns *)
ApplyNext ==
  /\ status = "running"
  /\ isArray(patch)
  /\ done < Len(patch.a)
  /\ LET r == applyOperation(document, patch.a[done + 1])
     IN /\ r.ok
        /\ document' = r.val
        /\ original' = (IF aliased THEN r.src ELSE original)
        /\ aliased' = (aliased /\ r.same)
  /\ done' = done + 1
  /\ UNCHANGED <<given, patch, status, result>>

(* lines 299-301: one turn of the loop whose applyOperation throws *)
ApplyThrows ==
  /\ status = "running"
  /\ isArray(patch)
  /\ done < Len(patch.a)
  /\ LET r == applyOperation(document, patch.a[done + 1])
     IN /\ ~r.ok
        /\ result' = r
  /\ status' = "thrown"
  /\ UNCHANGED <<original, given, patch, document, aliased, done>>

(* line 303 *)
ReturnDocument ==
  /\ status = "running"
  /\ isArray(patch)
  /\ done = Len(patch.a)
  /\ status' = "returned"
  /\ result' = document
  /\ UNCHANGED <<original, given, patch, document, aliased, done>>

Next == BadPatch \/ ApplyNext \/ ApplyThrows \/ ReturnDocument

(* applyPatch as a function of its arguments: what the loop returns or    *)
(* throws.                                                                 *)
RECURSIVE applyLoop(_, _, _)
applyLoop(doc, operations, n) ==
  IF n >= Len(operations) THEN [ok |-> TRUE, val |-> doc]
  ELSE LET r == applyOperation(doc, operations[n + 1])
       IN IF ~r.ok THEN r ELSE applyLoop(r.val, operations, n + 1)

applyPatch(doc, p) ==
  IF ~isArray(p) THEN Throw("bad patch: should be an array of operations")
  ELSE applyLoop(doc, p.a, 0)

----------------------------------------------------------------------------
(* The documents and patches the model is run on *)

MaxPatchLen == 2

MaxPathLen == 2

KeyA == <<"a">>
KeyB == <<"b">>

(* {key: value} and {a: x, b: y} *)
Obj1(key, value) == Obj([x \in {key} |-> value])
Obj2(x, y) == Obj([z \in {KeyA, KeyB} |-> IF z = KeyA THEN x ELSE y])

Documents ==
  { Null, Num(1),
    Obj(<<>>), Obj1(KeyA, Num(1)), Obj2(Num(1), Num(2)), Obj1(KeyA, Null),
    Arr(<<>>), Arr(<<Num(1)>>), Arr(<<Num(1), Num(2)>>),
    Obj1(KeyA, Obj1(KeyB, Num(1))),
    Obj2(Arr(<<Num(1), Num(2)>>), Num(2)),
    Arr(<<Arr(<<Num(1)>>), Num(2)>>),
    Arr(<<Obj1(KeyA, Num(1)), Obj1(KeyB, Num(2))>>),
    Obj2(Obj2(Num(1), Arr(<<Num(1)>>)), Arr(<<Num(2)>>)) }

Values == { Num(1), Num(9), Obj1(KeyA, Num(1)) }

Tokens == { <<"a">>, <<"b">>, <<"0">>, <<"1">>, <<"-">> }

(* The pointer string of a sequence of tokens: "/" before each token *)
RECURSIVE PathString(_)
PathString(tokens) ==
  IF tokens = <<>> THEN <<>> ELSE <<"/">> \o Head(tokens) \o PathString(Tail(tokens))

Paths == { Str(PathString(t)) : t \in UNION {[1..n -> Tokens] : n \in 0..MaxPathLen} }

Op1(name, path) == [x \in {"op", "path"} |-> IF x = "op" THEN OpName(name) ELSE path]

OpValue(name, path, value) ==
  [x \in {"op", "path", "value"} |->
     IF x = "op" THEN OpName(name) ELSE IF x = "path" THEN path ELSE value]

OpFrom(name, from, path) ==
  [x \in {"op", "path", "from"} |->
     IF x = "op" THEN OpName(name) ELSE IF x = "path" THEN path ELSE from]

EditOperations ==
  {OpValue(n, p, v) : n \in {"add", "replace", "test"}, p \in Paths, v \in Values}
    \cup {Op1("remove", p) : p \in Paths}

MoveOperations == {OpFrom("move", f, p) : f \in Paths, p \in Paths}

CopyOperations == {OpFrom("copy", f, p) : f \in Paths, p \in Paths}

P(chars) == Str(chars)

(* A few operations of each kind, for the patches of several operations *)
SomeOperations ==
  { OpValue("add", P(<<"/", "a">>), Num(9)),
    OpValue("add", P(<<"/", "0">>), Num(9)),
    OpValue("add", P(<<"/", "a", "/", "-">>), Num(9)),
    OpValue("add", P(<<>>), Obj1(KeyA, Num(1))),
    Op1("remove", P(<<"/", "a">>)),
    Op1("remove", P(<<"/", "0">>)),
    OpValue("replace", P(<<"/", "a">>), Arr(<<Num(1)>>)),
    OpFrom("move", P(<<"/", "a">>), P(<<"/", "b">>)),
    OpFrom("copy", P(<<"/", "0">>), P(<<"/", "1">>)),
    OpValue("test", P(<<"/", "a">>), Num(1)),
    OpValue("test", P(<<"/", "a">>), Num(9)) }

(* Every patch of one add, remove, replace or test, the patches of up to   *)
(* MaxPatchLen of the operations above, and a patch that is no array       *)
Patches ==
  { Arr(<<o>>) : o \in EditOperations }
    \cup { Arr(q) : q \in UNION {[1..n -> SomeOperations] : n \in 0..MaxPatchLen} }
    \cup { Null }

Init == \E D \in Documents, Q \in Patches : InitWith(D, Q)

Spec == Init /\ [][Next]_vars

(* Every patch of one move *)
MovePatches == { Arr(<<o>>) : o \in MoveOperations } \cup { Null }

InitMove == \E D \in Documents, Q \in MovePatches : InitWith(D, Q)

SpecMove == InitMove /\ [][Next]_vars

(* Every patch of one copy *)
CopyPatches == { Arr(<<o>>) : o \in CopyOperations } \cup { Null }

InitCopy == \E D \in Documents, Q \in CopyPatches : InitWith(D, Q)

SpecCopy == InitCopy /\ [][Next]_vars

(* Every patch of one test, on documents and with values of every kind *)
TestDocuments ==
  Documents \cup
    { Str(<<"1">>), Obj1(KeyA, Str(<<"1">>)),
      Arr(<<Num(2), Num(1)>>), Arr(<<Arr(<<Num(1), Num(2)>>), Obj(<<>>)>>) }

TestValues ==
  { Null, Num(1), Num(2), Str(<<"1">>),
    Arr(<<>>), Arr(<<Num(1)>>), Arr(<<Num(1), Num(2)>>), Arr(<<Num(2), Num(1)>>),
    Arr(<<Arr(<<Num(1)>>), Num(2)>>), Arr(<<Arr(<<Num(1)>>), Num(1)>>),
    Obj(<<>>), Obj1(KeyA, Num(1)), Obj1(KeyB, Num(1)), Obj1(KeyA, Null),
    Obj2(Num(1), Num(2)), Obj2(Num(2), Num(1)),
    Obj1(KeyA, Obj1(KeyB, Num(1))), Obj1(KeyA, Obj1(KeyB, Num(2))),
    Obj2(Arr(<<Num(1), Num(2)>>), Num(2)) }

TestPatches ==
  { Arr(<<OpValue("test", p, v)>>) : p \in Paths, v \in TestValues } \cup { Null }

InitTest == \E D \in TestDocuments, Q \in TestPatches : InitWith(D, Q)

SpecTest == InitTest /\ [][Next]_vars

(* Every patch of one add, remove, replace or test whose last token holds  *)
(* escapes or is written as an array index in some form, under a prefix of *)
(* plain tokens, on documents with such keys and with arrays               *)
KeyOf(chars) == chars

EscapeDocument ==
  Obj([x \in {KeyOf(<<"~">>), KeyOf(<<"/">>), KeyOf(<<"~", "/">>)} |->
         IF x = <<"~">> THEN Num(1) ELSE IF x = <<"/">> THEN Num(2) ELSE Num(3)])

SlashDocument ==
  Obj([x \in {KeyOf(<<"a", "/", "b", "/", "c">>), KeyOf(<<"a", "/", "b", "~", "1", "c">>)} |->
         IF x = <<"a", "/", "b", "/", "c">> THEN Num(1) ELSE Num(2)])

TokenDocuments ==
  { Obj(<<>>), EscapeDocument, SlashDocument,
    Obj1(KeyA, EscapeDocument), Arr(<<SlashDocument>>),
    Arr(<<>>), Arr(<<Num(1), Num(2)>>), Obj1(KeyA, Arr(<<Num(1), Num(2)>>)),
    Arr(<<Arr(<<Num(1), Num(2)>>), Num(2)>>) }

EscapeTokens ==
  { <<"~", "0">>, <<"~", "1">>, <<"~", "0", "~", "1">>, <<"~", "0", "1">>,
    <<"~", "1", "~", "1">>, <<"~", "0", "~", "0">>,
    <<"a", "~", "1", "b", "~", "1", "c">> }

IndexTokens ==
  { <<"0">>, <<"1">>, <<"2">>, <<"0", "1">>, <<"0", "0">>, <<"+", "1">>, <<"-", "1">>,
    <<" ", "1">>, <<"1", " ">>, <<"1", ".", "0">>, <<"1", "e", "0">>, <<"1", ".", "5">>,
    <<"a">>, <<"1", "a">>, <<"-">> }

PlainPrefixes == UNION {[1..n -> {KeyA, <<"0">>}] : n \in 0..(MaxPathLen - 1)}

TokenPaths ==
  { Str(PathString(pre \o <<t>>)) : pre \in PlainPrefixes, t \in EscapeTokens \cup IndexTokens }

TokenPatches ==
  { Arr(<<OpValue(n, p, v)>>) : n \in {"add", "replace", "test"}, p \in TokenPaths,
                                 v \in {Num(1), Num(9)} }
    \cup { Arr(<<Op1("remove", p)>>) : p \in TokenPaths }
    \cup { Null }

InitToken == \E D \in TokenDocuments, Q \in TokenPatches : InitWith(D, Q)

SpecToken == InitToken /\ [][Next]_vars

(* Every patch of one operation of any shape: each of the members op,      *)
(* path, from and value absent or present, the op a known or an unknown    *)
(* name or no string, the pointers well-formed or not                      *)
ShapeDocuments ==
  { Null, Obj1(KeyA, Num(1)), Arr(<<Num(1), Num(2)>>), Obj1(KeyA, Obj1(KeyB, Num(1))) }

OpNames == {"add", "copy", "move", "remove", "replace", "test"}

ShapeOps == {OpName(n) : n \in OpNames} \cup {Str(<<"n", "o", "p">>), Null}

ShapePointers ==
  { P(<<>>), P(<<"/", "a">>), P(<<"/", "0">>), P(<<"/", "a", "/", "b">>),
    P(<<"a">>), P(<<"a", "/", "b">>), Num(0), Null }

ShapeValues == { Null, Num(1) }

MakeOperation(members, o, p, f, v) ==
  [x \in members |->
     IF x = "op" THEN o ELSE IF x = "path" THEN p ELSE IF x = "from" THEN f ELSE v]

ShapeOperations ==
  { MakeOperation(members, o, p, f, v) :
      members \in SUBSET {"op", "path", "from", "value"},
      o \in ShapeOps, p \in ShapePointers, f \in ShapePointers, v \in ShapeValues }

ShapePatches == { Arr(<<o>>) : o \in ShapeOperations } \cup { Null }

InitShape == \E D \in ShapeDocuments, Q \in ShapePatches : InitWith(D, Q)

SpecShape == InitShape /\ [][Next]_vars

(* Every patch of one operation of each of the six kinds, over paths that  *)
(* may hold an empty token                                                 *)
CursorTokens == { KeyA, <<"0">>, <<"-">>, <<>> }

CursorDocuments ==
  { Null, Obj1(KeyA, Num(1)), Arr(<<Num(1), Num(2)>>),
    Obj2(Arr(<<Num(1), Num(2)>>), Num(2)),
    Arr(<<Arr(<<Num(1)>>), Num(2)>>),
    Obj2(Obj2(Num(1), Arr(<<Num(1)>>)), Arr(<<Num(2)>>)) }

CursorPaths ==
  { Str(PathString(t)) : t \in UNION {[1..n -> CursorTokens] : n \in 0..MaxPathLen} }

CursorPatches ==
  { Arr(<<OpValue(n, p, Num(9))>>) : n \in {"add", "replace", "test"}, p \in CursorPaths }
    \cup { Arr(<<Op1("remove", p)>>) : p \in CursorPaths }
    \cup { Arr(<<OpFrom(n, f, p)>>) : n \in {"move", "copy"}, f \in CursorPaths, p \in CursorPaths }
    \cup { Null }

InitCursor == \E D \in CursorDocuments, Q \in CursorPatches : InitWith(D, Q)

SpecCursor == InitCursor /\ [][Next]_vars

----------------------------------------------------------------------------
(* The error kinds of the specification, as sets of the messages thrown *)

NotFound == {"pointer does not lead anywhere", "pointer points to a nonexistent location"}

OutOfBounds == {"pointer points to an index that is out-of-bounds"}

InvalidPrefixMove == {"from pointer cannot be a prefix of path pointer"}

TestMismatch ==
  {"test target is an object but the value is not",
   "test target has a different number of keys than the compared value",
   "test target lacks a key", "test target has an extra key",
   "test target is an array but the value is not",
   "test target and value are arrays of differing length",
   "is not equal to"}

InvalidArrayIndex == {"path token is not a valid array index"}

InvalidPointer ==
  {"bad path: should be a string", "bad path: should be \"\" or start with \"/\""}

UnknownOperation == {"illegal op: should be add/copy/move/remove/replace/test"}

MissingField == {"missing value", "missing from"}

PointerExhausted == {"pointer is already fully read"}

PathNotObjectOrArray ==
  {"pointer leads to an element that is neither an array nor an object",
   "token context should either be an array or a string"}

----------------------------------------------------------------------------
(* Properties *)

(* The locations of a document, read off the document itself: a token    *)
(* names a member of an object by its key and an element of an array by    *)
(* its canonical decimal index.  (The tokens of Tokens hold no escape.)    *)

IsIndexToken(t) ==
  /\ t # <<>>
  /\ \A i \in 1..Len(t) : IsDigit(t[i])
  /\ (Len(t) = 1 \/ t[1] # "0")

IndexOfToken(t) == DigitsValue(t)

(* The value at the location tokens of node, or Undefined when there is    *)
(* no such location                                                        *)
RECURSIVE At(_, _)
At(node, tokens) ==
  IF tokens = <<>> THEN node
  ELSE IF isObject(node)
    THEN IF Head(tokens) \in DOMAIN node.o THEN At(node.o[Head(tokens)], Tail(tokens))
         ELSE Undefined
  ELSE IF isArray(node) /\ IsIndexToken(Head(tokens)) /\ IndexOfToken(Head(tokens)) < Len(node.a)
    THEN At(node.a[IndexOfToken(Head(tokens)) + 1], Tail(tokens))
  ELSE Undefined

Parent(tokens) == SubSeq(tokens, 1, Len(tokens) - 1)

Last(tokens) == tokens[Len(tokens)]

(* The patch is one operation of the kind name *)
IsOne(name) == isArray(patch) /\ Len(patch.a) = 1 /\ patch.a[1].op = OpName(name)

(* The tokens of the path and of the from of the one operation *)
PathTokens == Tail(StringSplit(patch.a[1].path.s, "/"))

FromTokens == Tail(StringSplit(patch.a[1].from.s, "/"))

Finished == status \in {"returned", "thrown"}

(* The call threw an error of the kind *)
Threw(kind) == status = "thrown" /\ result.err \in kind

(* Token sequence f is a prefix of token sequence t *)
IsTokenPrefix(f, t) == Len(f) <= Len(t) /\ SubSeq(t, 1, Len(f)) = f

(* The call ended as r does: it returned the document r holds, or it threw *)
(* when r is an error                                                      *)
SameOutcome(r) ==
  IF r.ok THEN status = "returned" /\ result = r.val ELSE status = "thrown"

(* C1: all-or-nothing application.  The caller's document is never         *)
(* modified, whether the call returns or throws; and when some operation   *)
(* of the patch fails on the document the operations before it produced,   *)
(* the call throws and returns no document: it returns only when every     *)
(* operation succeeded, and a call that threw holds an error, not the      *)
(* document built so far.                                                  *)
C1_AllOrNothing ==
  /\ original = given
  /\ (status = "returned" => applyPatch(given, patch).ok)
  /\ (status = "thrown" => ~result.ok /\ ~applyPatch(given, patch).ok)
  /\ (status = "running" => result = Undefined)

(* A call that threw after an operation had changed the working document *)
C1_Witness ==
  /\ status = "thrown"
  /\ done >= 1
  /\ document # given
  /\ original = given

(* C2: sequencing.  The loop applies the operations in list order, each to *)
(* the document the one before it produced (the first to the document      *)
(* given); the document returned is the one the last operation produced,   *)
(* and the document given for the empty patch.                             *)
C2_Sequencing ==
  /\ (status = "running" /\ isArray(patch) =>
        /\ done <= Len(patch.a)
        /\ applyLoop(given, SubSeq(patch.a, 1, done), 0) = [ok |-> TRUE, val |-> document])
  /\ (status = "returned" =>
        /\ done = Len(patch.a)
        /\ applyLoop(given, patch.a, 0) = [ok |-> TRUE, val |-> result]
        /\ (Len(patch.a) = 0 => result = given))

(* A returned patch of two operations, each of which changed the document *)
C2_Witness ==
  /\ status = "returned"
  /\ Len(patch.a) = 2
  /\ applyOperation(given, patch.a[1]).val # given
  /\ applyOperation(given, patch.a[1]).val # result
  /\ applyOperation(given, patch.a[2]).ok
  /\ applyOperation(given, patch.a[2]).val # result

(* An object is object c with key set to value and nothing else changed *)
IsObjectWith(c2, c, key, value) ==
  /\ isObject(c2)
  /\ DOMAIN c2.o = DOMAIN c.o \cup {key}
  /\ c2.o[key] = value
  /\ \A x \in DOMAIN c.o \ {key} : c2.o[x] = c.o[x]

(* An array is array c with value inserted at position i (from 0) *)
IsArrayWithInserted(c2, c, i, value) ==
  /\ isArray(c2)
  /\ Len(c2.a) = Len(c.a) + 1
  /\ c2.a[i + 1] = value
  /\ \A j \in 1..i : c2.a[j] = c.a[j]
  /\ \A j \in (i + 1)..Len(c.a) : c2.a[j + 1] = c.a[j]

(* C3: the effect of add at its final container (the value at the path    *)
(* without its last token).  An object container gets the key set to the   *)
(* value, added or overwritten, its other members unchanged.  An array     *)
(* container of length n with a last token that is an index i <= n has     *)
(* length n + 1 afterwards, the value at i, the elements before i in place *)
(* and those from i on one position to the right; the token - is i = n;    *)
(* an index i > n fails as out of bounds.                                  *)
C3_AddEffect ==
  (IsOne("add") /\ Finished /\ PathTokens # <<>>) =>
    LET c == At(given, Parent(PathTokens))
        n == Len(c.a)
        i == IF Last(PathTokens) = <<"-">> THEN n ELSE IndexOfToken(Last(PathTokens))
    IN /\ isObject(c) =>
            /\ status = "returned"
            /\ IsObjectWith(At(result, Parent(PathTokens)), c, Last(PathTokens),
                            patch.a[1].value)
       /\ (isArray(c) /\ (IsIndexToken(Last(PathTokens)) \/ Last(PathTokens) = <<"-">>)) =>
            IF i <= n
              THEN /\ status = "returned"
                   /\ IsArrayWithInserted(At(result, Parent(PathTokens)), c, i,
                                          patch.a[1].value)
              ELSE Threw(OutOfBounds)

(* An add that inserted before the last element of an array of two, an     *)
(* add that overwrote an object member, and one that failed out of bounds  *)
C3_Witness ==
  /\ IsOne("add") /\ status = "returned" /\ Len(PathTokens) = 2
  /\ isArray(At(given, Parent(PathTokens)))
  /\ Len(At(given, Parent(PathTokens)).a) = 2
  /\ Last(PathTokens) = <<"1">>

C3_WitnessOverwrite ==
  /\ IsOne("add") /\ status = "returned" /\ PathTokens # <<>>
  /\ isObject(At(given, Parent(PathTokens)))
  /\ At(given, PathTokens) \notin {Undefined, patch.a[1].value}

C3_WitnessOutOfBounds ==
  /\ IsOne("add") /\ Threw(OutOfBounds)
  /\ At(given, Parent(PathTokens)) = Arr(<<>>)
  /\ Last(PathTokens) = <<"1">>

(* Container c2 is container c with at most its member token changed:     *)
(* the same kind, the same number of members, every other member equal     *)
OnlyMemberDiffers(c2, c, token) ==
  IF isArray(c)
    THEN /\ isArray(c2)
         /\ Len(c2.a) = Len(c.a)
         /\ \A j \in 1..Len(c.a) :
              (IsIndexToken(token) /\ j = IndexOfToken(token) + 1) \/ c2.a[j] = c.a[j]
    ELSE /\ isObject(c2)
         /\ DOMAIN c2.o = DOMAIN c.o
         /\ \A x \in DOMAIN c.o \ {token} : c2.o[x] = c.o[x]

(* C4: path-copying for add.  After a successful add whose path has two or *)
(* more tokens, every container on the path but the final one has as many  *)
(* members as in the document given, and only its member on the path       *)
(* differs: an intermediate array keeps its length and its other elements. *)
C4_AddPathCopy ==
  (IsOne("add") /\ status = "returned" /\ Len(PathTokens) >= 2) =>
    \A k \in 0..(Len(PathTokens) - 2) :
      OnlyMemberDiffers(At(result, SubSeq(PathTokens, 1, k)),
                        At(given, SubSeq(PathTokens, 1, k)),
                        PathTokens[k + 1])

(* C5: move-equivalence.  When from is not a prefix of path, a patch of    *)
(* one move ends as the patch [remove from, add path value-at-from] does:  *)
(* with the same document, or by failing in both cases.                    *)
C5_MoveEquivalence ==
  (IsOne("move") /\ Finished /\ ~IsTokenPrefix(FromTokens, PathTokens)) =>
    SameOutcome(applyPatch(given,
      Arr(<<Op1("remove", patch.a[1].from),
            OpValue("add", patch.a[1].path, At(given, FromTokens))>>)))

(* C6: a replace whose target exists yields the document that a remove at  *)
(* the path followed by an add of the value at the path yields.            *)
C6_ReplaceIsRemoveAdd ==
  (IsOne("replace") /\ Finished /\ At(given, PathTokens) # Undefined) =>
    SameOutcome(applyPatch(given,
      Arr(<<Op1("remove", patch.a[1].path),
            OpValue("add", patch.a[1].path, patch.a[1].value)>>)))

(* C7: round trip.  After a successful add at a path whose target did not  *)
(* exist (a new key, an index equal to the length, or the token -), a      *)
(* remove at the same path succeeds and yields the document given.         *)
C7_AddRemoveRoundTrip ==
  (IsOne("add") /\ status = "returned" /\ At(given, PathTokens) = Undefined) =>
    applyPatch(result, Arr(<<Op1("remove", patch.a[1].path)>>)) = [ok |-> TRUE, val |-> given]

(* The final token names a member the parent container could hold: any key *)
(* of an object, an index or the token - of an array                       *)
FinalTokenFits(c, t) ==
  isObject(c) \/ (isArray(c) /\ (IsIndexToken(t) \/ t = <<"-">>))

(* Array c2 is array c without its element at index i, the elements after  *)
(* it shifted one position left                                            *)
IsArrayWithout(c2, c, i) ==
  /\ isArray(c2)
  /\ Len(c2.a) = Len(c.a) - 1
  /\ \A j \in 1..Len(c2.a) : c2.a[j] = IF j <= i THEN c.a[j] ELSE c.a[j + 1]

(* Object c2 is object c without its member key, the other members equal *)
IsObjectWithout(c2, c, key) ==
  /\ isObject(c2)
  /\ DOMAIN c2.o = DOMAIN c.o \ {key}
  /\ \A x \in DOMAIN c2.o : c2.o[x] = c.o[x]

C8_WitnessNotFound ==
  /\ IsOne("remove") /\ Threw(NotFound) /\ PathTokens # <<>>
  /\ isArray(At(given, Parent(PathTokens)))
  /\ Last(PathTokens) = <<"-">>

(* The document node with the value at its existing location tokens set to v *)
RECURSIVE SetAt(_, _, _)
SetAt(node, tokens, v) ==
  IF tokens = <<>> THEN v
  ELSE IF isObject(node)
    THEN Obj([node.o EXCEPT ![Head(tokens)] = SetAt(@, Tail(tokens), v)])
  ELSE Arr([node.a EXCEPT ![IndexOfToken(Head(tokens)) + 1] = SetAt(@, Tail(tokens), v)])

C9_WitnessNotFound ==
  /\ IsOne("replace") /\ Threw(NotFound) /\ Len(PathTokens) = 2
  /\ isObject(At(given, Parent(PathTokens)))

(* The decimal token of index i *)
RECURSIVE TokenOfIndex(_)
TokenOfIndex(i) ==
  IF i < 10 THEN <<Digits[i + 1]>>
  ELSE TokenOfIndex(i \div 10) \o <<Digits[(i % 10) + 1]>>

(* The locations of node, as token sequences *)
RECURSIVE Locations(_)
Locations(node) ==
  {<<>>} \cup
    IF isObject(node)
      THEN UNION {{<<x>> \o l : l \in Locations(node.o[x])} : x \in DOMAIN node.o}
    ELSE IF isArray(node)
      THEN UNION {{<<TokenOfIndex(j - 1)>> \o l : l \in Locations(node.a[j])} :
                    j \in 1..Len(node.a)}
    ELSE {}

(* The location the path of the one operation addresses in the document    *)
(* given: the token - of an array reads as its length                      *)
TargetLocation ==
  IF PathTokens # <<>> /\ Last(PathTokens) = <<"-">>
       /\ isArray(At(given, Parent(PathTokens)))
    THEN Parent(PathTokens) \o <<TokenOfIndex(Len(At(given, Parent(PathTokens)).a))>>
    ELSE PathTokens

(* The write at path replaced the value at from or a value holding it: path *)
(* is a prefix of from and names the root or a member of an object          *)
Overwrote ==
  /\ IsTokenPrefix(PathTokens, FromTokens)
  /\ (PathTokens = <<>> \/ isObject(At(given, Parent(PathTokens))))

(* The write at path landed inside the value at from: from is a proper     *)
(* prefix of path, and the value at from holds the copy of itself          *)
WroteInside == IsTokenPrefix(FromTokens, PathTokens) /\ FromTokens # PathTokens

C11_FromMustExist ==
  ((IsOne("move") \/ IsOne("copy")) /\ Finished /\ At(given, FromTokens) = Undefined) =>
    Threw(NotFound)

C12_WitnessSame ==
  /\ IsOne("move") /\ status = "returned"
  /\ FromTokens = PathTokens /\ Len(FromTokens) = 2
  /\ At(given, FromTokens) # Undefined

(* Typed equality: the same kind; primitives identical; arrays of the same *)
(* length, equal element by element in order; objects with the same set of *)
(* keys and equal values per key                                           *)
RECURSIVE DeepEqual(_, _)
DeepEqual(x, y) ==
  /\ x.k = y.k
  /\ CASE x.k = "arr" ->
            /\ Len(x.a) = Len(y.a)
            /\ \A i \in 1..Len(x.a) : DeepEqual(x.a[i], y.a[i])
       [] x.k = "obj" ->
            /\ DOMAIN x.o = DOMAIN y.o
            /\ \A key \in DOMAIN x.o : DeepEqual(x.o[key], y.o[key])
       [] x.k = "num" -> x.n = y.n
       [] x.k = "str" -> x.s = y.s
       [] OTHER -> TRUE

(* C13: test.  A test succeeds exactly when the path resolves to a value   *)
(* that is equal to the operation's value under typed equality; on success *)
(* the document is unchanged; when the value at the path differs the       *)
(* operation fails with TestMismatch.                                      *)
C13_TestEquality ==
  (IsOne("test") /\ Finished) =>
    /\ (status = "returned") <=>
         (/\ At(given, PathTokens) # Undefined
          /\ DeepEqual(At(given, PathTokens), patch.a[1].value))
    /\ (status = "returned" => result = given /\ document = given /\ aliased)
    /\ ((/\ At(given, PathTokens) # Undefined
         /\ ~DeepEqual(At(given, PathTokens), patch.a[1].value)) =>
          Threw(TestMismatch))

(* A test of a nested array against an equal array; a test that failed on  *)
(* arrays of the same elements in another order; one that failed on        *)
(* objects with the same number of keys but other keys; and one that       *)
(* failed on a number against the string of its digits                     *)
C13_Witness ==
  /\ IsOne("test") /\ status = "returned" /\ PathTokens # <<>>
  /\ isArray(patch.a[1].value) /\ Len(patch.a[1].value.a) = 2

C13_WitnessOrder ==
  /\ IsOne("test") /\ Threw(TestMismatch)
  /\ given = Arr(<<Num(2), Num(1)>>) /\ patch.a[1].value = Arr(<<Num(1), Num(2)>>)

C13_WitnessKeys ==
  /\ IsOne("test") /\ Threw(TestMismatch)
  /\ given = Obj1(KeyA, Num(1)) /\ patch.a[1].value = Obj1(KeyB, Num(1))
  /\ PathTokens = <<>>

C13_WitnessKind ==
  /\ IsOne("test") /\ Threw(TestMismatch)
  /\ At(given, PathTokens) = Num(1) /\ patch.a[1].value = Str(<<"1">>)

(* s with every occurrence of pat replaced by rep, left to right *)
RECURSIVE ReplaceAll(_, _, _)
ReplaceAll(s, pat, rep) ==
  IF Len(s) < Len(pat) THEN s
  ELSE IF SubSeq(s, 1, Len(pat)) = pat
    THEN rep \o ReplaceAll(SubSeq(s, Len(pat) + 1, Len(s)), pat, rep)
  ELSE <<Head(s)>> \o ReplaceAll(Tail(s), pat, rep)

Unescape(token) == ReplaceAll(ReplaceAll(token, <<"~", "1">>, <<"/">>), <<"~", "0">>, <<"~">>)

(* C14: escaping.  The key a token names in an object is the token with    *)
(* every ~1 replaced by / and then every ~0 replaced by ~: an add whose    *)
(* last token is read against an object sets that key.                     *)
C14_Escaping ==
  (IsOne("add") /\ Finished /\ PathTokens # <<>>
     /\ isObject(At(given, Parent(PathTokens)))) =>
    /\ status = "returned"
    /\ IsObjectWith(At(result, Parent(PathTokens)), At(given, Parent(PathTokens)),
                    Unescape(Last(PathTokens)), patch.a[1].value)

(* The patch is one operation *)
IsSingle == isArray(patch) /\ Len(patch.a) = 1

(* C15: canonical array indices.  An operation whose last token is read    *)
(* against an array, is not -, and is not the canonical decimal writing of *)
(* a non-negative integer fails with InvalidArrayIndex.                    *)
C15_CanonicalIndex ==
  (IsSingle /\ Finished /\ PathTokens # <<>>
     /\ isArray(At(given, Parent(PathTokens)))
     /\ Last(PathTokens) # <<"-">>
     /\ ~IsIndexToken(Last(PathTokens))) =>
    Threw(InvalidArrayIndex)

(* The one operation of the patch, its op being one of the six kinds *)
TheOperation == patch.a[1]

IsKnown == IsSingle /\ \E n \in OpNames : Field(TheOperation, "op") = OpName(n)

(* x is no pointer: no string, or a non-empty string that starts with      *)
(* another character than /                                                *)
BadPointer(x) == x.k # "str" \/ (x.s # <<>> /\ Head(x.s) # "/")

(* C16: pointer syntax validation.  An operation of any of the six kinds   *)
(* whose path, or whose from for a move or a copy, is no pointer fails     *)
(* with InvalidPointer; it never succeeds.                                 *)
C16_PointerSyntax ==
  (IsKnown /\ Finished
     /\ \/ BadPointer(Field(TheOperation, "path"))
        \/ /\ TheOperation.op \in {OpName("move"), OpName("copy")}
           /\ BadPointer(Field(TheOperation, "from"))) =>
    Threw(InvalidPointer)

(* C17: operation shape validation.  An operation whose op is absent or is *)
(* none of the six names fails with UnknownOperation; an add, replace or   *)
(* test without a value member and a move or copy without a from member    *)
(* fail with MissingField, whatever the document and the path are; a value *)
(* member that is null is a value member.                                  *)
C17_OperationShape ==
  (IsSingle /\ Finished) =>
    /\ (~IsKnown => Threw(UnknownOperation))
    /\ ((/\ IsKnown
         /\ TheOperation.op \in {OpName("add"), OpName("replace"), OpName("test")}
         /\ "value" \notin DOMAIN TheOperation) => Threw(MissingField))
    /\ ((/\ IsKnown
         /\ TheOperation.op \in {OpName("move"), OpName("copy")}
         /\ "from" \notin DOMAIN TheOperation) => Threw(MissingField))
    /\ ((/\ IsKnown
         /\ TheOperation.op \in {OpName("add"), OpName("replace"), OpName("test")}
         /\ "value" \in DOMAIN TheOperation) => ~Threw(MissingField))
    /\ ((/\ IsKnown
         /\ TheOperation.op \in {OpName("add"), OpName("replace")}
         /\ Field(TheOperation, "value") = Null
         /\ Field(TheOperation, "path") = P(<<"/", "a">>)
         /\ isObject(given)) =>
          status = "returned" /\ At(result, <<KeyA>>) = Null)

(* A move without from and with a path that is no pointer, failing with    *)
(* MissingField; an operation without op; and an add of null that returned *)
C17_Witness ==
  /\ IsKnown /\ Threw(MissingField)
  /\ TheOperation.op = OpName("move")
  /\ "from" \notin DOMAIN TheOperation
  /\ BadPointer(Field(TheOperation, "path"))
  /\ given = Null

C17_WitnessNoOp ==
  /\ IsSingle /\ Threw(UnknownOperation)
  /\ "op" \notin DOMAIN TheOperation
  /\ DOMAIN TheOperation = {"path", "value"}

C17_WitnessNull ==
  /\ IsKnown /\ status = "returned"
  /\ TheOperation.op = OpName("add")
  /\ Field(TheOperation, "value") = Null
  /\ Field(TheOperation, "path") = P(<<"/", "a">>)
  /\ given = Obj1(KeyA, Num(1))

(* C18: root target.  An add or a replace whose path is the empty string   *)
(* succeeds on every document, null and scalars included, and returns      *)
(* exactly the operation's value.                                          *)
C18_RootTarget ==
  ((IsOne("add") \/ IsOne("replace")) /\ Finished /\ TheOperation.path = EmptyString) =>
    status = "returned" /\ result = TheOperation.value

(* A replace at the root of the document null, and an add at the root of a *)
(* number, that returned an object                                         *)
C18_Witness ==
  /\ IsOne("replace") /\ status = "returned" /\ TheOperation.path = EmptyString
  /\ given = Null /\ isObject(result)

C18_WitnessAdd ==
  /\ IsOne("add") /\ status = "returned" /\ TheOperation.path = EmptyString
  /\ given = Num(1) /\ isObject(result)

IsContainer(x) == isArray(x) \/ isObject(x)

(* The positions of the non-final tokens of the path that address no       *)
(* container: a member that does not exist, a scalar or null               *)
NoContainerAt ==
  {k \in 1..(Len(PathTokens) - 1) : ~IsContainer(At(given, SubSeq(PathTokens, 1, k)))}

FirstNoContainerAt == CHOOSE k \in NoContainerAt : \A j \in NoContainerAt : k <= j

(* C19: add never creates intermediate containers.  An add whose path has  *)
(* two or more tokens fails with PathNotObjectOrArray when a non-final     *)
(* token addresses a member that does not exist or is a scalar or null,    *)
(* and succeeds when every container up to the parent exists and the final *)
(* token names a member the parent can take, existing or not.              *)
C19_AddNoIntermediates ==
  (IsOne("add") /\ Finished /\ Len(PathTokens) >= 2) =>
    IF NoContainerAt # {}
      THEN FinalTokenFits(At(given, SubSeq(PathTokens, 1, FirstNoContainerAt - 1)),
                          PathTokens[FirstNoContainerAt]) =>
             Threw(PathNotObjectOrArray)
      ELSE (/\ IsContainer(given)
            /\ FinalTokenFits(At(given, Parent(PathTokens)), Last(PathTokens))
            /\ (isArray(At(given, Parent(PathTokens))) /\ IsIndexToken(Last(PathTokens)) =>
                  IndexOfToken(Last(PathTokens)) <= Len(At(given, Parent(PathTokens)).a))) =>
             status = "returned"

(* An add under a member the object does not hold, an add under a scalar   *)
(* member and an add under a null member, all failed; and an add of a new  *)
(* member to an existing nested object, succeeded                          *)
C19_Witness ==
  /\ IsOne("add") /\ Threw(PathNotObjectOrArray) /\ Len(PathTokens) = 2
  /\ isObject(given)
  /\ At(given, Parent(PathTokens)) = Undefined

C19_WitnessScalar ==
  /\ IsOne("add") /\ Threw(PathNotObjectOrArray) /\ Len(PathTokens) = 2
  /\ isObject(given)
  /\ At(given, Parent(PathTokens)) = Num(1)

C19_WitnessNull ==
  /\ IsOne("add") /\ Threw(PathNotObjectOrArray) /\ Len(PathTokens) = 2
  /\ isObject(given)
  /\ At(given, Parent(PathTokens)) = Null

C19_WitnessParent ==
  /\ IsOne("add") /\ status = "returned" /\ Len(PathTokens) = 2
  /\ isObject(At(given, Parent(PathTokens)))
  /\ At(given, PathTokens) = Undefined

(* The members that are not defined for the operation's op *)
Irrelevant(o) ==
  IF o.op \in {OpName("add"), OpName("replace"), OpName("test")} THEN {"from"}
  ELSE IF o.op = OpName("remove") THEN {"from", "value"}
  ELSE {"value"}

(* The operation without its irrelevant members *)
Strip(o) == [x \in DOMAIN o \ Irrelevant(o) |-> o[x]]

(* C20: irrelevant members are ignored.  An operation that has a member    *)
(* not defined for its op, whatever that member holds, ends as the         *)
(* operation without the member does: with the same document or with the   *)
(* same failure.                                                           *)
C20_IrrelevantMembers ==
  (IsKnown /\ Finished /\ DOMAIN TheOperation \cap Irrelevant(TheOperation) # {}) =>
    IF status = "returned"
      THEN applyPatch(given, Arr(<<Strip(TheOperation)>>)) = [ok |-> TRUE, val |-> result]
      ELSE applyPatch(given, Arr(<<Strip(TheOperation)>>)) = result

(* An add with a from that is no pointer, which changed the document; and  *)
(* a remove with a value and a from, which failed as the bare remove does  *)
C20_Witness ==
  /\ IsKnown /\ status = "returned"
  /\ TheOperation.op = OpName("add")
  /\ "from" \in DOMAIN TheOperation /\ BadPointer(TheOperation.from)
  /\ result # given

C20_WitnessFailure ==
  /\ IsKnown /\ Threw(NotFound)
  /\ TheOperation.op = OpName("remove")
  /\ DOMAIN TheOperation = {"op", "path", "from", "value"}

(* A walk that returned left the cursor of its pointer within the tokens *)
CursorWithin(walk) ==
  walk.ok => walk.ptr.nextTokenIndex <= Len(walk.ptr.tokenStrings)

(* Every walk of the pointer of the string path over the document given,   *)
(* from a cursor of zero, leaves the cursor within the tokens              *)
WalksWithin(path) ==
  /\ CursorWithin(has(given, Pointer(path).val))
  /\ CursorWithin(get(given, Pointer(path).val))
  /\ (path # EmptyString =>
        /\ CursorWithin(add(given, Pointer(path).val, Num(9)))
        /\ CursorWithin(replace(given, Pointer(path).val, Num(9)))
        /\ CursorWithin(remove(given, Pointer(path).val)))

(* The edit r of a pointer with a cursor of zero returned the document d *)
EditGave(r, d) == r.ok /\ [ok |-> TRUE, val |-> r.val] = [ok |-> TRUE, val |-> d]

(* C21: cursor invariant.  No call of applyPatch ends with the error of a  *)
(* pointer read past its end; the walks of the primitives leave the cursor *)
(* within the tokens; and the second walk of a pointer walked twice starts *)
(* from zero: a replace that returned gave what replace gives with a new   *)
(* pointer of the path, and a move that went on to remove gave what remove *)
(* gives with a new pointer of from.                                       *)
C21_CursorInvariant ==
  /\ (status = "thrown" => result.err \notin PointerExhausted)
  /\ (IsSingle /\ Finished =>
        /\ WalksWithin(TheOperation.path)
        /\ ("from" \in DOMAIN TheOperation => WalksWithin(TheOperation.from)))
  /\ ((IsOne("replace") /\ status = "returned" /\ TheOperation.path # EmptyString) =>
        EditGave(replace(given, Pointer(TheOperation.path).val, TheOperation.value), result))
  /\ ((/\ IsOne("move") /\ status = "returned"
       /\ TheOperation.path # EmptyString
       /\ ~IsTokenPrefix(PathTokens, FromTokens)) =>
        LET g == get(given, Pointer(TheOperation.from).val)
            r == replace(given, Pointer(TheOperation.path).val, g.val)
        IN g.ok /\ r.ok /\ EditGave(remove(r.val, Pointer(TheOperation.from).val), result))

(* A move from a location two tokens deep that went on to remove it, after *)
(* get had read the from pointer to its end; and a replace two tokens deep *)
(* after has had read the pointer to its end                               *)
C21_Witness ==
  /\ IsOne("move") /\ status = "returned"
  /\ Len(FromTokens) = 2 /\ PathTokens # <<>>
  /\ ~IsTokenPrefix(PathTokens, FromTokens)
  /\ At(result, FromTokens) # At(given, FromTokens)

C21_WitnessReplace ==
  /\ IsOne("replace") /\ status = "returned"
  /\ Len(PathTokens) = 2 /\ result # given

=============================================================================
